---- MODULE Spec2Model ----
(***************************************************************************)
(* Model of python/serial_monitor.py: class SerialDataLogger.               *)
(*                                                                         *)
(* One session is one call of run() on a fresh SerialDataLogger.  The two  *)
(* CSV files live in the file system and survive from session to session;  *)
(* everything else is per-object state that __init__ resets.               *)
(*                                                                         *)
(* The main thread (run, manual_input_loop, log_manual_heart_rate,         *)
(* cleanup) and the ingestion loop (serial_monitor_loop in annotation      *)
(* mode, the inline while loop of run otherwise; both call process_line)   *)
(* each have a program counter.  A step of the model is one access to      *)
(* shared state, so every interleaving of the two threads is explored.     *)
(***************************************************************************)
EXTENDS Integers, Sequences, FiniteSets, TLC

(* ------------------------------ bounds --------------------------------- *)

\* wall clock values a behaviour may reach (time.time(), in ticks)
MaxClock == 2

\* clock ticks per millisecond: the resolution below which int(x * 1000) truncates
TicksPerMs == 2

\* times the program is run on the same output path in one behaviour
MaxSessions == 2

\* device lines readline() returns in one behaviour
MaxLines == 3

\* operator lines input() returns in one behaviour
MaxInputs == 1

(* --------------------------- values and rows ---------------------------- *)

\* Python's None for connection_start_time (a time is never negative)
None == -1

\* csv.writer rows.  names: the header's column names; nums: the integer
\* cells of a data row; strs: its text cells (sequences of words).
SensorHeader ==
    [kind |-> "header",
     names |-> <<"System_Timestamp", "Arduino_Timestamp_ms", "Heart_Rate_BPM", "SpO2_Percent">>,
     nums |-> <<>>, strs |-> <<>>]

ManualHeader ==
    [kind |-> "header",
     names |-> <<"System_Timestamp", "Estimated_Arduino_Timestamp_ms", "Heart_Rate_BPM",
                 "Device", "Notes">>,
     nums |-> <<>>, strs |-> <<>>]

SensorRow(system_time, timestamp, hr_value, spo2_value) ==
    [kind |-> "data", names |-> <<>>,
     nums |-> <<system_time, timestamp, hr_value, spo2_value>>, strs |-> <<>>]

ManualRow(system_time, arduino_timestamp, hr_value, device, notes) ==
    [kind |-> "data", names |-> <<>>,
     nums |-> <<system_time, arduino_timestamp, hr_value>>, strs |-> <<device, notes>>]

IsHeader(row) == row.kind = "header"

\* the file as the path names it: absent, or present with the rows on disk
AbsentFile == [exists |-> FALSE, disk |-> <<>>]

(* ------------------------------ time ------------------------------------ *)

\* int(x) of Python: truncation toward zero
TruncDiv(a, b) == IF a >= 0 THEN a \div b ELSE -((-a) \div b)

\* int((now - anchor) * 1000): whole milliseconds between two clock readings
ElapsedMs(now, anchor) == TruncDiv(now - anchor, TicksPerMs)

\* strftime('%Y-%m-%d %H:%M:%S.%f')[:-3]: the wall clock cut to milliseconds
SystemTime(now) == now \div TicksPerMs

(* ------------------------ device lines and regexes ---------------------- *)

\* A line is a sequence of tokens <<class, payload>>: a literal piece of text,
\* a run of whitespace, or a maximal run of digits with its integer value.
Lit(s) == <<"lit", s>>
Ws == <<"ws", " ">>
Num(n) == <<"num", n>>

\* r'TIMESTAMP_MS:\s*(\d+)\s*\|\s*HR:\s*(\d+)\s*\|\s*SpO2:\s*(\d+)'
combined_pattern ==
    << <<"lit", "TIMESTAMP_MS:">>, <<"ws*", "">>, <<"num", "">>, <<"ws*", "">>,
       <<"lit", "|">>, <<"ws*", "">>, <<"lit", "HR:">>, <<"ws*", "">>, <<"num", "">>,
       <<"ws*", "">>, <<"lit", "|">>, <<"ws*", "">>, <<"lit", "SpO2:">>, <<"ws*", "">>,
       <<"num", "">> >>

\* a variant: r'TIMESTAMP_MS:\s*(\d+)', the telemetry tag in place of the marker's text
connection_pattern_Telemetry ==
    << <<"lit", "TIMESTAMP_MS:">>, <<"ws*", "">>, <<"num", "">> >>

\* a variant: r'(\d+)', the marker's text is not asked for
connection_pattern_Digits == << <<"num", "">> >>

\* a variant: r'\s*', a pattern that is found in every line
connection_pattern_Loose == << <<"ws*", "">> >>

\* r'Connection timestamp set at millis:\s*(\d+)'
connection_pattern ==
    << <<"lit", "Connection timestamp set at millis:">>, <<"ws*", "">>, <<"num", "">> >>

\* Match pattern elements k.. against tokens i.. of line; groups collects the
\* (\d+) captures.  Returns <<TRUE, groups>> or <<FALSE, <<>> >>.  The token
\* classes are disjoint, so the greedy \s* never has to give anything back.
RECURSIVE MatchFrom(_, _, _, _, _)
MatchFrom(line, i, pat, k, groups) ==
    IF k > Len(pat) THEN <<TRUE, groups>>
    ELSE IF pat[k][1] = "ws*"
         THEN IF i <= Len(line) /\ line[i][1] = "ws"
              THEN MatchFrom(line, i + 1, pat, k, groups)
              ELSE MatchFrom(line, i, pat, k + 1, groups)
    ELSE IF i > Len(line) THEN <<FALSE, <<>> >>
    ELSE IF pat[k][1] = "num"
         THEN IF line[i][1] = "num"
              THEN MatchFrom(line, i + 1, pat, k + 1, Append(groups, line[i][2]))
              ELSE <<FALSE, <<>> >>
    ELSE IF line[i][1] = "lit" /\ line[i][2] = pat[k][2]
         THEN MatchFrom(line, i + 1, pat, k + 1, groups)
         ELSE <<FALSE, <<>> >>

\* pattern.search(line): the leftmost position where the pattern matches
RECURSIVE SearchFrom(_, _, _)
SearchFrom(line, i, pat) ==
    IF i > Len(line) THEN <<FALSE, <<>> >>
    ELSE LET m == MatchFrom(line, i, pat, 1, <<>>)
         IN IF m[1] THEN m ELSE SearchFrom(line, i + 1, pat)

Search(pat, line) == SearchFrom(line, 1, pat)

\* str.strip(): drop leading and trailing whitespace
RECURSIVE LStrip(_)
LStrip(line) ==
    IF line # <<>> /\ line[1][1] = "ws" THEN LStrip(Tail(line)) ELSE line

RECURSIVE RStrip(_)
RStrip(line) ==
    IF line # <<>> /\ line[Len(line)][1] = "ws"
    THEN RStrip(SubSeq(line, 1, Len(line) - 1)) ELSE line

Strip(line) == RStrip(LStrip(line))

\* The lines the device sends in this model.
DeviceLineIds == 1..6
DeviceLine(n) ==
    CASE n = 1 -> \* "TIMESTAMP_MS: 1500 | HR: 72 | SpO2: 98"
           <<Lit("TIMESTAMP_MS:"), Ws, Num(1500), Ws, Lit("|"), Ws, Lit("HR:"), Ws, Num(72),
             Ws, Lit("|"), Ws, Lit("SpO2:"), Ws, Num(98), Ws>>
      [] n = 2 -> \* "TIMESTAMP_MS:1600|HR:75|SpO2:97"
           <<Lit("TIMESTAMP_MS:"), Num(1600), Lit("|"), Lit("HR:"), Num(75), Lit("|"),
             Lit("SpO2:"), Num(97)>>
      [] n = 3 -> \* "Connection timestamp set at millis: 5"
           <<Lit("Connection timestamp set at millis:"), Ws, Num(5), Ws>>
      [] n = 4 -> \* "garbage noise"
           <<Lit("garbage"), Ws, Lit("noise")>>
      [] n = 5 -> \* "TIMESTAMP_MS: 1700 | HR: | SpO2: 96" (torn telemetry)
           <<Lit("TIMESTAMP_MS:"), Ws, Num(1700), Ws, Lit("|"), Ws, Lit("HR:"), Ws,
             Lit("|"), Ws, Lit("SpO2:"), Ws, Num(96)>>
      [] OTHER -> \* marker and telemetry run together on one line
           <<Lit("Connection timestamp set at millis:"), Ws, Num(7), Ws,
             Lit("TIMESTAMP_MS:"), Ws, Num(1500), Ws, Lit("|"), Ws, Lit("HR:"), Ws, Num(72),
             Ws, Lit("|"), Ws, Lit("SpO2:"), Ws, Num(98)>>

(* --------------------------- operator input ----------------------------- *)

\* An operator line is its whitespace-separated words; a word is a token
\* <<"num", n>> (what int() accepts) or <<"lit", s>>.
OperatorLineIds == 1..5
OperatorLine(n) ==
    CASE n = 1 -> <<>>                                        \* "" (or only blanks)
      [] n = 2 -> <<Num(81), Lit("Polar")>>                   \* "81 Polar"
      [] n = 3 -> <<Num(72)>>                                 \* "72"
      [] n = 4 -> <<Lit("abc"), Lit("Polar")>>                \* "abc Polar"
      [] OTHER -> <<Num(90), Lit("Garmin"), Lit("after"), Lit("run")>> \* "90 Garmin after run"

\* user_input.split(maxsplit=2): at most three parts, the third the remainder
Split2(words) ==
    IF Len(words) <= 2 THEN [w \in 1..Len(words) |-> <<words[w]>>]
    ELSE <<<<words[1]>>, <<words[2]>>, SubSeq(words, 3, Len(words))>>

\* a variant: the ValueError of int() is not raised, the part is taken as it is
IntParses_Any(part) == TRUE

\* int(parts[0]) raises ValueError unless the part is an integer literal
IntParses(part) == part[1][1] = "num"

\* the words of a text cell, as written
WordsOf(part) == [w \in 1..Len(part) |-> part[w][2]]

(* ------------------------------- state ---------------------------------- *)

VARIABLES
    fsSensor,               \* the sensor log as the file system holds it
    fsManual,               \* the manual log (manual_<name>) as the file system holds it
    csv_file,               \* self.csv_file / self.csv_writer: "none", "open", "closed"
    csv_buf,                \* rows written to csv_file and not yet flushed
    manual_csv_file,        \* self.manual_csv_file / self.manual_csv_writer
    manual_buf,             \* rows written to manual_csv_file and not yet flushed
    serial_conn,            \* self.serial_conn: "none", "open", "closed"
    connection_start_time,  \* self.connection_start_time: None or a clock reading
    running,                \* self.running
    enable_manual_input,    \* self.enable_manual_input
    clock,                  \* the wall clock
    mainPc,                 \* position of the main thread in run()
    ingPc,                  \* position of the ingestion loop
    iloc,                   \* locals of the ingestion loop / process_line
    mloc,                   \* locals of manual_input_loop / log_manual_heart_rate
    hist                    \* history of the session (read by no step of the program)

files == <<fsSensor, fsManual>>
handles == <<csv_file, csv_buf, manual_csv_file, manual_buf, serial_conn>>
flags == <<connection_start_time, running, enable_manual_input>>
env == <<clock>>
pcs == <<mainPc, ingPc>>
locals == <<iloc, mloc>>
vars == <<files, handles, flags, env, pcs, locals, hist>>

NoILoc == [line |-> <<>>, connection_match |-> FALSE, row |-> SensorHeader]
NoMLoc == [hr_value |-> 0, device |-> <<>>, notes |-> <<>>, system_time |-> 0,
           now |-> 0, anchor |-> None, arduino_timestamp |-> 0]

\* What the session has done so far.
NoHist ==
    [session |-> 0,             \* sessions started
     linesRead |-> 0,           \* readline() calls that returned a line
     inputsRead |-> 0,          \* input() calls that returned a line
     cleanups |-> 0,            \* calls of cleanup()
     markers |-> <<>>,          \* clock readings at which a marker was processed
     anchorsWritten |-> {},     \* every value assigned to connection_start_time
     parsed |-> <<>>,           \* the telemetry triples process_line parsed, in order
     entered |-> <<>>,          \* the entries the operator made, in order
     lastInput |-> 0,           \* which operator line input() returned last (0: none)
     sensorAtOpen |-> <<>>,     \* the sensor log's rows when open_csv opened it
     manualAtOpen |-> <<>>,     \* the manual log's rows when open_csv opened it
     opened |-> "no",           \* outcome of open_serial / open_csv
     exitPath |-> "none",       \* why run() is leaving
     ingExit |-> "none",        \* why the ingestion loop stopped
     lost |-> 0]                \* parsed telemetry rows whose write raised

Init ==
    /\ fsSensor = AbsentFile
    /\ fsManual = AbsentFile
    /\ csv_file = "none"
    /\ csv_buf = <<>>
    /\ manual_csv_file = "none"
    /\ manual_buf = <<>>
    /\ serial_conn = "none"
    /\ connection_start_time = None
    /\ running = TRUE
    /\ enable_manual_input = FALSE
    /\ clock = 0
    /\ mainPc = "idle"
    /\ ingPc = "none"
    /\ iloc = NoILoc
    /\ mloc = NoMLoc
    /\ hist = NoHist

(* --------------------------- the environment ---------------------------- *)

\* the wall clock advances
Tick ==
    /\ clock < MaxClock
    /\ clock' = clock + 1
    /\ UNCHANGED <<files, handles, flags, pcs, locals, hist>>

(* ------------------------- files and handles ---------------------------- *)

\* a variant: the file is opened in mode 'w', which empties it
OpenAppend_Truncate(file) == [exists |-> TRUE, disk |-> <<>>]

\* open(path, 'a'): creates the file when absent, keeps what it holds
OpenAppend(file) == [exists |-> TRUE, disk |-> IF file.exists THEN file.disk ELSE <<>>]

\* "if not file_exists": whether open_csv writes the header
WritesHeader(file_exists) == ~file_exists

\* a variant: the flush call is missing, the rows stay in the buffer
Flush_Nothing(file, buf) == [file |-> file, buf |-> buf]

\* file.flush(): what is buffered goes to the file, after what it holds,
\* and the buffer is empty
Flush(file, buf) == [file |-> [file EXCEPT !.disk = file.disk \o buf], buf |-> <<>>]

\* a variant: the close call is missing
CloseIfSet_Skip(handle) == handle

\* "if self.x: self.x.close()" of cleanup: a handle that was set is closed
CloseIfSet(handle) == IF handle # "none" THEN "closed" ELSE handle

\* the rows of a log: on disk, then the buffered ones
Content(file, buf) == file.disk \o buf

(* ---------------------- __init__ and open_serial ------------------------ *)

\* __init__: the fields of a fresh SerialDataLogger
ObjectInit(manual) ==
    /\ enable_manual_input' = manual
    /\ csv_file' = "none"
    /\ csv_buf' = <<>>
    /\ manual_csv_file' = "none"
    /\ manual_buf' = <<>>
    /\ serial_conn' = "none"
    /\ connection_start_time' = None
    /\ running' = TRUE
    /\ iloc' = NoILoc
    /\ mloc' = NoMLoc

\* main(): a SerialDataLogger is made and run() is called
FirstSession ==
    /\ mainPc = "idle"
    /\ \E manual \in BOOLEAN : ObjectInit(manual)
    /\ mainPc' = "open_serial"
    /\ hist' = [hist EXCEPT !.session = 1]
    /\ UNCHANGED <<files, env, ingPc>>

\* The program is run again on the same output path.  The previous process
\* is gone: its daemon thread with it, and what a file object it left open
\* still buffered is written by the interpreter's finalisation or lost.
\* The budgets of lines and inputs are per behaviour and carry over.
LaterSession ==
    /\ mainPc = "returned"
    /\ hist.session < MaxSessions
    /\ \E manual \in BOOLEAN, keepS \in BOOLEAN, keepM \in BOOLEAN :
        /\ ObjectInit(manual)
        /\ fsSensor' = IF csv_file = "open" /\ keepS THEN Flush(fsSensor, csv_buf).file
                       ELSE fsSensor
        /\ fsManual' = IF manual_csv_file = "open" /\ keepM
                       THEN Flush(fsManual, manual_buf).file
                       ELSE fsManual
        /\ (csv_file = "open" /\ csv_buf # <<>>) \/ keepS
        /\ (manual_csv_file = "open" /\ manual_buf # <<>>) \/ keepM
    /\ mainPc' = "open_serial"
    /\ ingPc' = "none"
    /\ hist' = [NoHist EXCEPT !.session = hist.session + 1,
                              !.linesRead = hist.linesRead,
                              !.inputsRead = hist.inputsRead]
    /\ UNCHANGED clock

\* a variant: the result of open_serial is not looked at
RunAfterOpenSerial_Ignore(opened) == "open_csv"

\* run, "if not self.open_serial(): return"
RunAfterOpenSerial(opened) == IF opened THEN "open_csv" ELSE "returned"

\* open_serial succeeds: the port is open and the anchor is the session start
OpenSerialOk ==
    /\ mainPc = "open_serial"
    /\ serial_conn' = "open"
    /\ connection_start_time' = clock
    /\ hist' = [hist EXCEPT !.anchorsWritten = {clock}]
    /\ mainPc' = RunAfterOpenSerial(TRUE)
    /\ UNCHANGED <<files, csv_file, csv_buf, manual_csv_file, manual_buf, running,
                   enable_manual_input, env, ingPc, locals>>

\* serial.Serial raises SerialException: open_serial returns False, run returns
OpenSerialFails ==
    /\ mainPc = "open_serial"
    /\ mainPc' = RunAfterOpenSerial(FALSE)
    /\ hist' = [hist EXCEPT !.opened = "serial_failed", !.exitPath = "open_failed"]
    /\ UNCHANGED <<files, handles, flags, env, ingPc, locals>>

(* ------------------------------ open_csv -------------------------------- *)

\* open_csv, by where (if anywhere) an IOError is raised:
\*   "sensor_open"    mkdir or open of the sensor log fails, nothing is created
\*   "sensor_header"  the sensor log is opened, writing its header fails
\*   "manual_open"    the sensor log is ready, open of the manual log fails
\*   "manual_header"  the manual log is opened, writing its header fails
\*   "ok"             no error
OpenCsvOutcomes == {"ok", "sensor_open", "sensor_header", "manual_open", "manual_header"}

OpenCsv ==
    /\ mainPc = "open_csv"
    /\ \E outcome \in OpenCsvOutcomes :
        LET file_exists == fsSensor.exists
            manual_file_exists == fsManual.exists
            sensorOpened == outcome # "sensor_open"
            sensorHeaderOk == outcome \notin {"sensor_open", "sensor_header"}
            manualReached == sensorHeaderOk /\ enable_manual_input
            manualOpened == manualReached /\ outcome # "manual_open"
            manualHeaderOk == manualOpened /\ outcome # "manual_header"
            succeeded == IF enable_manual_input THEN manualHeaderOk ELSE sensorHeaderOk
            \* writerow(header), then flush() unless the write raised
            sensorWritten == IF sensorOpened /\ WritesHeader(file_exists)
                             THEN Append(csv_buf, SensorHeader) ELSE csv_buf
            sensorAfter == IF sensorHeaderOk
                           THEN Flush(OpenAppend(fsSensor), sensorWritten)
                           ELSE [file |-> OpenAppend(fsSensor), buf |-> sensorWritten]
            manualWritten == IF manualOpened /\ WritesHeader(manual_file_exists)
                             THEN Append(manual_buf, ManualHeader) ELSE manual_buf
            manualAfter == IF manualHeaderOk
                           THEN Flush(OpenAppend(fsManual), manualWritten)
                           ELSE [file |-> OpenAppend(fsManual), buf |-> manualWritten]
        IN  /\ outcome = "sensor_header" => WritesHeader(file_exists)
            /\ outcome \in {"manual_open", "manual_header"} => enable_manual_input
            /\ outcome = "manual_header" => WritesHeader(manual_file_exists)
            /\ csv_file' = IF sensorOpened THEN "open" ELSE csv_file
            /\ fsSensor' = IF sensorOpened THEN sensorAfter.file ELSE fsSensor
            /\ csv_buf' = IF sensorOpened THEN sensorAfter.buf ELSE csv_buf
            /\ manual_csv_file' = IF manualOpened THEN "open" ELSE manual_csv_file
            /\ fsManual' = IF manualOpened THEN manualAfter.file ELSE fsManual
            /\ manual_buf' = IF manualOpened THEN manualAfter.buf ELSE manual_buf
            /\ hist' = [hist EXCEPT !.sensorAtOpen = fsSensor.disk,
                                    !.manualAtOpen = fsManual.disk,
                                    !.opened = IF succeeded THEN "ok" ELSE "csv_failed"]
            /\ mainPc' = IF succeeded THEN "start" ELSE "open_csv_failed"
    /\ UNCHANGED <<serial_conn, flags, env, ingPc, locals>>

\* run, "if not self.open_csv(): self.serial_conn.close(); return"
RunOpenCsvFailed ==
    /\ mainPc = "open_csv_failed"
    /\ serial_conn' = "closed"
    /\ mainPc' = "returned"
    /\ hist' = [hist EXCEPT !.exitPath = "open_failed"]
    /\ UNCHANGED <<files, csv_file, csv_buf, manual_csv_file, manual_buf, flags, env,
                   ingPc, locals>>

(* ------------------------ run: starting the loops ----------------------- *)

\* annotation mode: serial_thread.start(), then manual_input_loop()
StartThread ==
    /\ mainPc = "start"
    /\ enable_manual_input
    /\ ingPc' = "check"
    /\ mainPc' = "m_check"
    /\ UNCHANGED <<files, handles, flags, env, locals, hist>>

\* simple mode: the main thread runs the polling loop itself
EnterSimpleLoop ==
    /\ mainPc = "start"
    /\ ~enable_manual_input
    /\ ingPc' = "check"
    /\ mainPc' = "simple"
    /\ UNCHANGED <<files, handles, flags, env, locals, hist>>

(* ----------------- the ingestion loop and process_line ------------------ *)

\* the ingestion loop is being executed: by its thread, or by the main thread
IngestionRuns == enable_manual_input \/ mainPc = "simple"

\* An exception leaves the loop.  serial_monitor_loop catches it and breaks
\* (self.running is left as it is); the loop of run lets it propagate to the
\* finally clause.
IngRaise(lostRow) ==
    /\ ingPc' = "done"
    /\ iloc' = NoILoc
    /\ mainPc' = IF enable_manual_input THEN mainPc ELSE "cleanup"
    /\ hist' = [hist EXCEPT !.ingExit = "error",
                            !.lost = @ + (IF lostRow THEN 1 ELSE 0),
                            !.exitPath = IF enable_manual_input THEN @ ELSE "device_error"]

\* a variant: the loop is "while True:", the flag is not consulted
WhileRunning_Forever(flag) == TRUE

\* "while self.running:": the loop goes on while the flag is set
WhileRunning(flag) == flag

\* "while self.running:" of serial_monitor_loop and of the loop in run
IngCheck ==
    /\ IngestionRuns
    /\ ingPc = "check"
    /\ IF WhileRunning(running)
       THEN /\ ingPc' = "poll"
            /\ UNCHANGED <<mainPc, hist>>
       ELSE /\ ingPc' = "done"
            /\ mainPc' = IF enable_manual_input THEN mainPc ELSE "cleanup"
            /\ hist' = [hist EXCEPT !.ingExit = "flag"]
    /\ UNCHANGED <<files, handles, flags, env, locals>>

\* the port can be used: in_waiting and readline raise on a closed port
PortUsable == serial_conn = "open"

\* "if self.serial_conn.in_waiting > 0:" - bytes are waiting
IngPollData ==
    /\ IngestionRuns
    /\ ingPc = "poll"
    /\ PortUsable
    /\ hist.linesRead < MaxLines
    /\ ingPc' = "read"
    /\ UNCHANGED <<files, handles, flags, env, mainPc, locals, hist>>

\* Where an iteration that found nothing waiting goes.  In serial_monitor_loop
\* the "else: time.sleep(0.01)" belongs to "if ... in_waiting > 0".  In the
\* loop of run it is indented under the "while" (a while-else, run when the
\* test fails), so an idle iteration goes straight back to the test.
AfterIdlePoll(manual) == IF manual THEN "sleep" ELSE "check"

\* "if self.serial_conn.in_waiting > 0:" - nothing is waiting
IngPollIdle ==
    /\ IngestionRuns
    /\ ingPc = "poll"
    /\ PortUsable
    /\ ingPc' = AfterIdlePoll(enable_manual_input)
    /\ UNCHANGED <<files, handles, flags, env, mainPc, locals, hist>>

\* "time.sleep(0.01)" is over: back to the while test
IngSleep ==
    /\ IngestionRuns
    /\ ingPc = "sleep"
    /\ ingPc' = "check"
    /\ UNCHANGED <<files, handles, flags, env, mainPc, locals, hist>>

\* in_waiting or readline raises: the port is closed, or the device has
\* failed (it was unplugged), which can happen at any use of the port
IngDeviceError ==
    /\ IngestionRuns
    /\ ingPc \in {"poll", "read"}
    /\ IngRaise(FALSE)
    /\ UNCHANGED <<files, handles, flags, env, mloc>>

\* readline().decode(): a line arrives; process_line strips it
IngRead ==
    /\ IngestionRuns
    /\ ingPc = "read"
    /\ PortUsable
    /\ \E n \in DeviceLineIds : iloc' = [iloc EXCEPT !.line = Strip(DeviceLine(n))]
    /\ hist' = [hist EXCEPT !.linesRead = @ + 1]
    /\ ingPc' = "conn_match"
    /\ UNCHANGED <<files, handles, flags, env, mainPc, mloc>>

\* readline() times out with nothing read: "if line:" is false
IngReadEmpty ==
    /\ IngestionRuns
    /\ ingPc = "read"
    /\ PortUsable
    /\ ingPc' = "check"
    /\ UNCHANGED <<files, handles, flags, env, mainPc, locals, hist>>

\* a variant: the anchor is set once and a later marker does not replace it
NewAnchor_KeepFirst(old, now) == IF old = None THEN now ELSE old

\* a variant: the store is not atomic, a reader sees the high part of the new
\* value with the low part of the old one
NewAnchor_Torn(old, now) == (now \div 2) * 2 + (old % 2)

\* "self.connection_start_time = time.time()": the attribute is rebound to
\* the new reading in one store
NewAnchor(old, now) == now

\* process_line, the connection-start check
IngConnMatch ==
    /\ IngestionRuns
    /\ ingPc = "conn_match"
    /\ LET connection_match == Search(connection_pattern, iloc.line)
       IN /\ IF connection_match[1]
             THEN /\ connection_start_time' = NewAnchor(connection_start_time, clock)
                  /\ hist' = [hist EXCEPT !.markers = Append(@, clock),
                                          !.anchorsWritten = @ \cup {clock}]
             ELSE UNCHANGED <<connection_start_time, hist>>
          /\ iloc' = [iloc EXCEPT !.connection_match = connection_match[1]]
    /\ ingPc' = "tele_match"
    /\ UNCHANGED <<files, handles, running, enable_manual_input, env, mainPc, mloc>>

\* process_line, the telemetry match: the row is built
IngTeleMatch ==
    /\ IngestionRuns
    /\ ingPc = "tele_match"
    /\ LET combined_match == Search(combined_pattern, iloc.line)
           g == combined_match[2]
       IN IF combined_match[1]
          THEN /\ iloc' = [iloc EXCEPT !.row = SensorRow(SystemTime(clock), g[1], g[2], g[3])]
               /\ hist' = [hist EXCEPT !.parsed = Append(@, g)]
               /\ ingPc' = "writerow"
          ELSE /\ ingPc' = "check"
               /\ iloc' = NoILoc
               /\ UNCHANGED hist
    /\ UNCHANGED <<files, handles, flags, env, mainPc, mloc>>

\* "self.csv_writer.writerow(row)"; on a closed file it raises ValueError
IngWriteRow ==
    /\ IngestionRuns
    /\ ingPc = "writerow"
    /\ IF csv_file = "open"
       THEN /\ csv_buf' = Append(csv_buf, iloc.row)
            /\ ingPc' = "flush"
            /\ UNCHANGED <<mainPc, iloc, hist>>
       ELSE /\ IngRaise(TRUE)
            /\ UNCHANGED csv_buf
    /\ UNCHANGED <<files, csv_file, manual_csv_file, manual_buf, serial_conn, flags, env,
                   mloc>>

\* "self.csv_file.flush()"; on a closed file it raises ValueError (close
\* has written the row by then)
IngFlush ==
    /\ IngestionRuns
    /\ ingPc = "flush"
    /\ IF csv_file = "open"
       THEN /\ fsSensor' = Flush(fsSensor, csv_buf).file
            /\ csv_buf' = Flush(fsSensor, csv_buf).buf
            /\ ingPc' = "check"
            /\ iloc' = NoILoc
            /\ UNCHANGED <<mainPc, hist>>
       ELSE /\ IngRaise(FALSE)
            /\ UNCHANGED <<fsSensor, csv_buf>>
    /\ UNCHANGED <<fsManual, csv_file, manual_csv_file, manual_buf, serial_conn, flags, env,
                   mloc>>

\* a variant: the flag is left set
ShutdownFlag_Unset == TRUE

\* "self.running = False"
ShutdownFlag == FALSE

\* Ctrl+C in simple mode: KeyboardInterrupt ends the loop wherever it is;
\* run's handler clears the flag, then the finally clause runs
SimpleInterrupt ==
    /\ mainPc = "simple"
    /\ running' = ShutdownFlag
    /\ ingPc' = "done"
    /\ iloc' = NoILoc
    /\ mainPc' = "cleanup"
    /\ hist' = [hist EXCEPT !.exitPath = "interrupt", !.ingExit = "interrupt"]
    /\ UNCHANGED <<files, handles, connection_start_time, enable_manual_input, env, mloc>>

(* ------------- manual_input_loop and log_manual_heart_rate -------------- *)

\* "while self.running:" of manual_input_loop
ManCheck ==
    /\ mainPc = "m_check"
    /\ mainPc' = IF WhileRunning(running) THEN "m_input" ELSE "join"
    /\ UNCHANGED <<files, handles, flags, env, ingPc, locals, hist>>

\* input().strip() is empty: "if not user_input:", the operator quits
ManQuit ==
    /\ mainPc = "m_input"
    /\ \E n \in OperatorLineIds :
        LET user_input == OperatorLine(n)
        IN  /\ user_input = <<>>
            /\ hist' = [hist EXCEPT !.exitPath = "quit", !.lastInput = n]
    /\ running' = ShutdownFlag
    /\ mainPc' = "join"
    /\ UNCHANGED <<files, handles, connection_start_time, enable_manual_input, env, ingPc,
                   locals>>

\* input() returns a line whose first part int() accepts: the entry is taken
\* and log_manual_heart_rate starts (its writer is set, it reads the time of day)
ManEntry ==
    /\ mainPc = "m_input"
    /\ hist.inputsRead < MaxInputs
    /\ \E n \in OperatorLineIds :
        LET user_input == OperatorLine(n)
            parts == Split2(user_input)
            hr_value == parts[1][1][2]
            device == IF Len(parts) > 1 THEN WordsOf(parts[2]) ELSE <<"External">>
            notes == IF Len(parts) > 2 THEN WordsOf(parts[3]) ELSE <<>>
        IN  /\ user_input # <<>>
            /\ IntParses(parts[1])
            /\ mloc' = [NoMLoc EXCEPT !.hr_value = hr_value, !.device = device,
                                      !.notes = notes, !.system_time = SystemTime(clock)]
            /\ hist' = [hist EXCEPT !.inputsRead = @ + 1,
                                    !.lastInput = n,
                                    !.entered = Append(@, <<hr_value, device, notes>>)]
    /\ mainPc' = IF manual_csv_file = "none" THEN "m_check" ELSE "lm_now"
    /\ UNCHANGED <<files, handles, flags, env, ingPc, iloc>>

\* input() returns a line whose first part is no integer: ValueError is
\* caught, the message is printed, the loop prompts again
ManInvalid ==
    /\ mainPc = "m_input"
    /\ hist.inputsRead < MaxInputs
    /\ \E n \in OperatorLineIds :
        LET user_input == OperatorLine(n)
        IN  /\ user_input # <<>>
            /\ ~IntParses(Split2(user_input)[1])
            /\ hist' = [hist EXCEPT !.inputsRead = @ + 1, !.lastInput = n]
    /\ mainPc' = "m_check"
    /\ UNCHANGED <<files, handles, flags, env, ingPc, locals>>

\* input() raises EOFError (standard input is closed): nothing catches it,
\* run's finally clause runs with the flag as it is
ManEOF ==
    /\ mainPc = "m_input"
    /\ mainPc' = "cleanup"
    /\ hist' = [hist EXCEPT !.exitPath = "eof"]
    /\ UNCHANGED <<files, handles, flags, env, ingPc, locals>>

\* Ctrl+C inside the try of manual_input_loop: the flag is cleared, the loop
\* breaks, run goes on to join
ManInterrupt ==
    /\ mainPc \in {"m_input", "lm_now", "lm_anchor", "lm_write", "lm_flush"}
    /\ running' = ShutdownFlag
    /\ mainPc' = "join"
    /\ mloc' = NoMLoc
    /\ hist' = [hist EXCEPT !.exitPath = "interrupt"]
    /\ UNCHANGED <<files, handles, connection_start_time, enable_manual_input, env, ingPc,
                   iloc>>

\* Ctrl+C outside it (at the while test, in join): run's handler clears the
\* flag and the finally clause runs
RunInterrupt ==
    /\ mainPc \in {"m_check", "join"}
    /\ running' = ShutdownFlag
    /\ mainPc' = "cleanup"
    /\ hist' = [hist EXCEPT !.exitPath = "interrupt"]
    /\ UNCHANGED <<files, handles, connection_start_time, enable_manual_input, env, ingPc,
                   locals>>

\* "if self.connection_start_time is not None:" and the time.time() of the
\* estimate.  Otherwise the fallback: 0 unless the anchor is set by now.
LmNow ==
    /\ mainPc = "lm_now"
    /\ IF connection_start_time # None
       THEN /\ mloc' = [mloc EXCEPT !.now = clock]
            /\ mainPc' = "lm_anchor"
       ELSE /\ mloc' = [mloc EXCEPT !.now = clock, !.arduino_timestamp = 0]
            /\ mainPc' = "lm_write"
    /\ UNCHANGED <<files, handles, flags, env, ingPc, iloc, hist>>

\* "elapsed_ms = int((time.time() - self.connection_start_time) * 1000)":
\* the anchor is read after the clock
LmAnchor ==
    /\ mainPc = "lm_anchor"
    /\ mloc' = [mloc EXCEPT !.anchor = connection_start_time,
                            !.arduino_timestamp = ElapsedMs(mloc.now, connection_start_time)]
    /\ mainPc' = "lm_write"
    /\ UNCHANGED <<files, handles, flags, env, ingPc, iloc, hist>>

\* "self.manual_csv_writer.writerow(row)"
LmWriteRow ==
    /\ mainPc = "lm_write"
    /\ manual_buf' = Append(manual_buf,
                            ManualRow(mloc.system_time, mloc.arduino_timestamp, mloc.hr_value,
                                      mloc.device, mloc.notes))
    /\ mainPc' = "lm_flush"
    /\ UNCHANGED <<files, csv_file, csv_buf, manual_csv_file, serial_conn, flags, env, ingPc,
                   locals, hist>>

\* "self.manual_csv_file.flush()", then back to the prompt
LmFlush ==
    /\ mainPc = "lm_flush"
    /\ fsManual' = Flush(fsManual, manual_buf).file
    /\ manual_buf' = Flush(fsManual, manual_buf).buf
    /\ mainPc' = "m_check"
    /\ mloc' = NoMLoc
    /\ UNCHANGED <<fsSensor, csv_file, csv_buf, manual_csv_file, serial_conn, flags, env,
                   ingPc, iloc, hist>>

(* --------------------------- join and cleanup --------------------------- *)

\* "serial_thread.join(timeout=1)": the thread has finished
JoinFinished ==
    /\ mainPc = "join"
    /\ ingPc = "done"
    /\ mainPc' = "cleanup"
    /\ UNCHANGED <<files, handles, flags, env, ingPc, locals, hist>>

\* the second passes and the thread has not finished
JoinTimeout ==
    /\ mainPc = "join"
    /\ ingPc # "done"
    /\ mainPc' = "cleanup"
    /\ UNCHANGED <<files, handles, flags, env, ingPc, locals, hist>>

\* a variant: the device connection is closed before the manual log
CleanupNext_SerialEarly(step) ==
    CASE step = "cleanup" -> "cleanup_serial"
      [] step = "cleanup_serial" -> "cleanup_manual"
      [] OTHER -> "returned"

\* cleanup, the order of its three "if" blocks: the sensor log, the manual
\* log, the device connection; then run returns
CleanupNext(step) ==
    CASE step = "cleanup" -> "cleanup_manual"
      [] step = "cleanup_manual" -> "cleanup_serial"
      [] OTHER -> "returned"

\* "finally: self.cleanup()"; cleanup closes the sensor log (close flushes)
CleanupSensor ==
    /\ mainPc = "cleanup"
    /\ csv_file' = CloseIfSet(csv_file)
    /\ fsSensor' = IF csv_file = "open" THEN Flush(fsSensor, csv_buf).file ELSE fsSensor
    /\ csv_buf' = IF csv_file = "open" THEN Flush(fsSensor, csv_buf).buf ELSE csv_buf
    /\ hist' = [hist EXCEPT !.cleanups = @ + 1]
    /\ mainPc' = CleanupNext("cleanup")
    /\ UNCHANGED <<fsManual, manual_csv_file, manual_buf, serial_conn, flags, env, ingPc,
                   locals>>

\* cleanup closes the manual log
CleanupManual ==
    /\ mainPc = "cleanup_manual"
    /\ manual_csv_file' = CloseIfSet(manual_csv_file)
    /\ fsManual' = IF manual_csv_file = "open" THEN Flush(fsManual, manual_buf).file
                   ELSE fsManual
    /\ manual_buf' = IF manual_csv_file = "open" THEN Flush(fsManual, manual_buf).buf
                     ELSE manual_buf
    /\ mainPc' = CleanupNext("cleanup_manual")
    /\ UNCHANGED <<fsSensor, csv_file, csv_buf, serial_conn, flags, env, ingPc, locals, hist>>

\* cleanup closes the device connection; run is over
CleanupSerial ==
    /\ mainPc = "cleanup_serial"
    /\ serial_conn' = CloseIfSet(serial_conn)
    /\ mainPc' = CleanupNext("cleanup_serial")
    /\ UNCHANGED <<files, csv_file, csv_buf, manual_csv_file, manual_buf, flags, env, ingPc,
                   locals, hist>>

(* --------------------------- the specification -------------------------- *)

\* the steps of the program
Program ==
    \/ FirstSession
    \/ OpenSerialOk
    \/ OpenSerialFails
    \/ OpenCsv
    \/ RunOpenCsvFailed
    \/ StartThread
    \/ EnterSimpleLoop
    \/ IngCheck
    \/ IngPollData
    \/ IngPollIdle
    \/ IngSleep
    \/ IngDeviceError
    \/ IngRead
    \/ IngReadEmpty
    \/ IngConnMatch
    \/ IngTeleMatch
    \/ IngWriteRow
    \/ IngFlush
    \/ SimpleInterrupt
    \/ ManCheck
    \/ ManQuit
    \/ ManEntry
    \/ ManInvalid
    \/ ManEOF
    \/ ManInterrupt
    \/ RunInterrupt
    \/ LmNow
    \/ LmAnchor
    \/ LmWriteRow
    \/ LmFlush
    \/ JoinFinished
    \/ JoinTimeout
    \/ CleanupSensor
    \/ CleanupManual
    \/ CleanupSerial

\* one run of the program, the wall clock running
Next ==
    \/ Tick
    \/ Program

Spec == Init /\ [][Next]_vars

\* the program run again and again on the same output path, the wall clock
\* standing still
NextSessions ==
    \/ LaterSession
    \/ Program

SpecSessions == Init /\ [][NextSessions]_vars

\* the steps the main thread takes by itself once the operator has answered:
\* it waits for nobody but the join, which ends after a second at the latest
MainThreadSteps ==
    \/ ManCheck
    \/ LmNow
    \/ LmAnchor
    \/ LmWriteRow
    \/ LmFlush
    \/ JoinFinished
    \/ JoinTimeout
    \/ CleanupSensor
    \/ CleanupManual
    \/ CleanupSerial

\* the steps of the polling loop: in_waiting does not block, readline returns
\* after the port's timeout, the sleep is 10 ms
IngestionSteps ==
    \/ IngCheck
    \/ IngPollData
    \/ IngPollIdle
    \/ IngSleep
    \/ IngDeviceError
    \/ IngRead
    \/ IngReadEmpty
    \/ IngConnMatch
    \/ IngTeleMatch
    \/ IngWriteRow
    \/ IngFlush

\* both threads are scheduled again and again (the interpreter switches
\* threads every few milliseconds, and input() releases the lock)
Fairness == WF_vars(MainThreadSteps) /\ WF_vars(IngestionSteps)

\* one run of the program under fair scheduling, the wall clock standing still
SpecFair == Init /\ [][Program]_vars /\ Fairness

(* ------------------------------ properties ------------------------------ *)

\* how many rows of a log are header rows
RECURSIVE HeaderCount(_)
HeaderCount(rows) ==
    IF rows = <<>> THEN 0
    ELSE (IF IsHeader(rows[1]) THEN 1 ELSE 0) + HeaderCount(Tail(rows))

\* teardown has closed something
TeardownBegun == csv_file = "closed" \/ manual_csv_file = "closed" \/ serial_conn = "closed"

\* C1: in annotation mode teardown closes the sensor log and the device
\* connection only after the ingestion loop has terminated, so the loop never
\* polls, reads or writes a row after that, and no parsed record is lost.
C1_TeardownAfterIngestion ==
    (enable_manual_input /\ hist.opened = "ok" /\ TeardownBegun)
        => (ingPc = "done" /\ hist.lost = 0)

\* C2: a manual row appended while no connection-start marker has been
\* processed in the session carries an Estimated_Arduino_Timestamp_ms cell that
\* is marked unsynced, that is, not a plain integer.
C2_UnsyncedRowIsMarked ==
    (mainPc = "lm_flush" /\ hist.markers = <<>>)
        => manual_buf[Len(manual_buf)].nums[2] \notin Int

\* C3: when a device operation fails inside serial_monitor_loop, the loop has
\* set self.running to False by the time it has returned.
C3_DeviceErrorSetsFlag ==
    (enable_manual_input /\ ingPc = "done" /\ hist.ingExit = "error") => ~running

\* a log that open_csv has opened begins with its header and holds no other
OneHeaderFirst(rows) ==
    /\ rows # <<>>
    /\ IsHeader(rows[1])
    /\ HeaderCount(rows) = 1

\* C4: after every open of a log path, whatever the earlier sessions did, the
\* file begins with exactly one header row and never holds a second one (the
\* header is written exactly when the file holds no data yet); for both logs.
C4_OneHeaderAfterOpen ==
    hist.opened = "ok"
        => /\ OneHeaderFirst(Content(fsSensor, csv_buf))
           /\ enable_manual_input => OneHeaderFirst(Content(fsManual, manual_buf))

LastMarker == hist.markers[Len(hist.markers)]

\* C6: the estimate written for a manual entry made at wall time now, after the
\* latest connection-start marker was processed (now later than its time), is
\* the whole milliseconds from that marker's time to now: the latest marker's
\* time is the anchor, never an earlier one.
C6_EstimateFromLatestMarker ==
    (mainPc = "lm_flush" /\ hist.markers # <<>> /\ mloc.now > LastMarker)
        => manual_buf[Len(manual_buf)].nums[2] = (mloc.now - LastMarker) \div TicksPerMs

\* an entry after two markers at different times, where the earlier marker
\* would have given another estimate
C6_Witness ==
    /\ mainPc = "lm_flush"
    /\ Len(hist.markers) >= 2
    /\ hist.markers[1] < LastMarker
    /\ mloc.now > LastMarker
    /\ manual_buf[Len(manual_buf)].nums[2] # (mloc.now - hist.markers[1]) \div TicksPerMs

Added(prior, rows) == SubSeq(rows, Len(prior) + 1, Len(rows))

\* a log that held a header and at least one record when it was opened
HeldRecords(prior) == Len(prior) >= 2 /\ IsHeader(prior[1])

\* the log is its prior rows, unchanged, then data rows only
AppendedTo(prior, rows) ==
    /\ Len(rows) >= Len(prior)
    /\ SubSeq(rows, 1, Len(prior)) = prior
    /\ HeaderCount(rows) = 1
    /\ IsHeader(rows[1])

C10_OpenFailureReleasesAll ==
    (mainPc = "returned" /\ hist.opened = "csv_failed")
        => /\ serial_conn # "open"
           /\ csv_file # "open"
           /\ manual_csv_file # "open"

InputReturns ==
    /\ mainPc = "m_input"
    /\ mainPc' # "m_input"
    /\ hist'.exitPath \notin {"eof", "interrupt"}
    /\ hist'.lastInput \in OperatorLineIds

\* C12: when the line the operator enters is empty after strip(), that step of
\* the annotation loop clears self.running and leaves the loop, without a row
\* added to the manual log (or taken as an entry) and with the anchor as it was.
C12_EmptyLineQuits ==
    [][(InputReturns /\ OperatorLine(hist'.lastInput) = <<>>)
        => /\ running' = FALSE
           /\ mainPc' = "join"
           /\ Content(fsManual, manual_buf)' = Content(fsManual, manual_buf)
           /\ hist'.entered = hist.entered
           /\ connection_start_time' = connection_start_time]_vars

\* the operator has quit with an empty line after an entry was logged and a
\* marker had replaced the anchor
C12_Witness ==
    /\ mainPc = "join"
    /\ hist.exitPath = "quit"
    /\ OperatorLine(hist.lastInput) = <<>>
    /\ ~running
    /\ Len(hist.entered) = 1
    /\ Len(Content(fsManual, manual_buf)) = 2
    /\ hist.markers # <<>>

\* C13: when open_serial has failed, run() is over at once: neither log exists
\* or has been opened, the device connection was never set, the polling loop
\* and the annotation loop were not started, and cleanup was not called.
C13_SerialFailureEndsRun ==
    hist.opened = "serial_failed"
        => /\ mainPc = "returned"
           /\ fsSensor = AbsentFile /\ fsManual = AbsentFile
           /\ csv_file = "none" /\ manual_csv_file = "none"
           /\ serial_conn = "none"
           /\ ingPc = "none"
           /\ hist.linesRead = 0 /\ hist.inputsRead = 0 /\ hist.lastInput = 0
           /\ hist.cleanups = 0

\* run() has returned from the failed open_serial of an annotation session
C13_Witness ==
    /\ hist.opened = "serial_failed"
    /\ hist.exitPath = "open_failed"
    /\ enable_manual_input
    /\ mainPc = "returned"

\* process_line takes one of its two steps (the marker check, the telemetry
\* check) on the line it holds; an interrupt is not such a step
ProcessLineStep ==
    \/ ingPc = "conn_match" /\ ingPc' = "tele_match"
    \/ ingPc = "tele_match" /\ ingPc' # "tele_match" /\ hist'.ingExit # "interrupt"

\* the lines of the model that hold neither a telemetry record nor a marker:
\* the noise line and the torn telemetry line
NoShapeLines == {Strip(DeviceLine(4)), Strip(DeviceLine(5))}

\* C14: the steps of process_line on a line that holds neither a telemetry
\* record nor a connection-start marker raise nothing and change no file, no
\* handle or buffer, not the anchor and not the flag; no row is counted as
\* parsed, and after the telemetry check the loop is back at its while test.
C14_UnrecognisedLineNoEffect ==
    [][(ProcessLineStep /\ iloc.line \in NoShapeLines)
        => /\ UNCHANGED <<files, handles, flags>>
           /\ hist'.parsed = hist.parsed /\ hist'.markers = hist.markers
           /\ hist'.ingExit = hist.ingExit
           /\ ingPc' = (IF ingPc = "conn_match" THEN "tele_match" ELSE "check")]_vars

\* a noise line has been processed, after a telemetry row was logged and later
\* than the anchor was set, and the loop is at its while test again
C14_Witness ==
    /\ ingPc = "check"
    /\ hist.linesRead = 2
    /\ Len(hist.parsed) = 1
    /\ hist.markers = <<>>
    /\ Len(Content(fsSensor, csv_buf)) = 2
    /\ clock > connection_start_time
    /\ connection_start_time # None
    /\ running

\* C15: when input() returns a non-empty line whose first part int() rejects,
\* that step of the annotation loop takes no entry and goes back to the while
\* test to prompt again: the manual log, the anchor and self.running are as they
\* were, nothing is closed, and the ingestion loop is where it was.
C15_InvalidEntryReprompts ==
    [][(InputReturns
            /\ OperatorLine(hist'.lastInput) # <<>>
            /\ OperatorLine(hist'.lastInput)[1][1] # "num")
        => /\ mainPc' = "m_check"
           /\ running' /\ running
           /\ UNCHANGED <<files, handles, flags, ingPc>>
           /\ hist'.entered = hist.entered
           /\ hist'.exitPath = "none"]_vars

\* "abc Polar" was rejected after a marker had replaced the anchor, and the
\* loop is prompting again with the ingestion thread running
C15_Witness ==
    /\ mainPc = "m_input"
    /\ hist.lastInput = 4
    /\ hist.inputsRead = 1
    /\ hist.entered = <<>>
    /\ Content(fsManual, manual_buf) = <<ManualHeader>>
    /\ hist.markers # <<>>
    /\ running
    /\ ingPc \notin {"none", "done"}

\* the lines of the model that hold a well-formed telemetry record (with
\* blanks around the numbers, without any, and after other text)
TelemetryLineIds == {1, 2, 6}

\* the three integers written in such a line, in the order of the line
TelemetryOf(line) ==
    IF line = Strip(DeviceLine(2)) THEN <<1600, 75, 97>> ELSE <<1500, 72, 98>>

\* the line process_line holds is one with a well-formed telemetry record
HoldsTelemetry == \E n \in TelemetryLineIds : iloc.line = Strip(DeviceLine(n))

\* the row process_line builds for such a line carries the three integers of
\* the line in the columns after System_Time
C16_RowIsTheThreeIntegers ==
    [][(ProcessLineStep /\ ingPc = "tele_match" /\ HoldsTelemetry)
        => /\ ingPc' = "writerow"
           /\ ~IsHeader(iloc'.row)
           /\ SubSeq(iloc'.row.nums, 2, 4) = TelemetryOf(iloc.line)]_vars

\* C16: for every line that holds a well-formed telemetry record, processing
\* the line appends exactly one row to the sensor log, and the row's columns
\* Arduino_Timestamp_ms, Heart_Rate_BPM, SpO2_Percent are the three integers of
\* the line in order.
C16_TelemetryLineAppendsRow ==
    /\ C16_RowIsTheThreeIntegers
    /\ [][(ingPc = "writerow" /\ ingPc' # "writerow" /\ hist'.ingExit # "interrupt")
            => Content(fsSensor, csv_buf)' = Append(Content(fsSensor, csv_buf), iloc.row)]_vars
    /\ [][(ingPc = "flush" /\ ingPc' # "flush")
            => Content(fsSensor, csv_buf)' = Content(fsSensor, csv_buf)]_vars

\* the cells of a row
NumColumns(row) == Len(row.names) + Len(row.nums) + Len(row.strs)

\* the rows of the two logs, buffered ones included
SensorLog == Content(fsSensor, csv_buf)
ManualLog == Content(fsManual, manual_buf)

\* once the loops run, every step that changes a log is the writerow of that
\* log's own loop, adds one row of that log's width at the end, and leaves the
\* other log as it is
C17_WritesAreIndependent ==
    /\ [][(ingPc # "none" /\ SensorLog' # SensorLog)
            => /\ ingPc = "writerow" /\ ingPc' = "flush"
               /\ mainPc' = mainPc
               /\ SensorLog' = Append(SensorLog, iloc.row)
               /\ NumColumns(iloc.row) = NumColumns(SensorHeader)
               /\ ManualLog' = ManualLog]_vars
    /\ [][(ingPc # "none" /\ ManualLog' # ManualLog)
            => /\ mainPc = "lm_write" /\ mainPc' = "lm_flush"
               /\ ingPc' = ingPc
               /\ Len(ManualLog') = Len(ManualLog) + 1
               /\ SubSeq(ManualLog', 1, Len(ManualLog)) = ManualLog
               /\ NumColumns(ManualLog'[Len(ManualLog')]) = NumColumns(ManualHeader)
               /\ SensorLog' = SensorLog]_vars

\* C17: under any interleaving the two logs stay independent: the sensor log is
\* written only by the ingestion loop and gains exactly one 4-column row per
\* processed telemetry line, the manual log is written only by the annotation
\* loop and gains exactly one 5-column row per accepted operator entry (a line
\* or entry whose processing the operator interrupts apart), and a write to
\* one log never changes the other.
C17_LogsIndependent ==
    /\ C17_WritesAreIndependent
    /\ []((hist.opened = "ok" /\ ingPc \notin {"none", "writerow"}
                /\ hist.ingExit # "interrupt")
            => Len(Added(hist.sensorAtOpen, SensorLog))
                 = Len(hist.parsed) + HeaderCount(Added(hist.sensorAtOpen, SensorLog)))
    /\ []((hist.opened = "ok" /\ mainPc \notin {"lm_now", "lm_anchor", "lm_write"}
                /\ hist.exitPath # "interrupt")
            => Len(Added(hist.manualAtOpen, ManualLog))
                 = Len(hist.entered) + HeaderCount(Added(hist.manualAtOpen, ManualLog)))

\* C18: processing one device line has exactly one of three outcomes: a sensor
\* row appended with the anchor not assigned, the anchor assigned with no row
\* appended, or neither; never both for the same line.  (At "flush" the row of
\* the line in hand has just been appended.)
C18_OneOutcomePerLine ==
    ingPc = "flush" => ~iloc.connection_match

\* C19: on every exit path that reaches cleanup, every log file that is open is
\* closed before the device connection is closed: while cleanup runs and when
\* it is over, a closed connection means that no log is open.
C19_LogsClosedBeforeDevice ==
    (hist.cleanups >= 1 /\ serial_conn = "closed")
        => (csv_file # "open" /\ manual_csv_file # "open")

\* cleanup has closed the connection of an annotation session that had both
\* logs open, after EOF on standard input
C19_Witness ==
    /\ hist.cleanups = 1
    /\ hist.opened = "ok"
    /\ hist.exitPath = "eof"
    /\ enable_manual_input
    /\ serial_conn = "closed"
    /\ csv_file = "closed"
    /\ manual_csv_file = "closed"

\* the lines of the model that hold a connection-start marker
MarkerLines == {Strip(DeviceLine(3)), Strip(DeviceLine(6))}

\* the positions of the main thread inside manual_input_loop
AnnotationPcs == {"m_check", "m_input", "lm_now", "lm_anchor", "lm_write", "lm_flush"}

\* C20: once the loops run, connection_start_time changes only in the step in
\* which the ingestion loop's process_line checks a line that holds a
\* connection-start marker (the main thread standing still in that step), and
\* no step of the annotation loop changes it.
C20_AnchorSingleWriter ==
    /\ [][(ingPc # "none" /\ connection_start_time' # connection_start_time)
            => /\ ingPc = "conn_match" /\ ingPc' = "tele_match"
               /\ iloc.line \in MarkerLines
               /\ mainPc' = mainPc /\ mloc' = mloc]_vars
    /\ [][(mainPc \in AnnotationPcs /\ mainPc' # mainPc)
            => connection_start_time' = connection_start_time]_vars

\* the annotation loop has read the anchor for an estimate and, before it
\* writes the row, the ingestion thread has replaced the anchor
C20_Witness ==
    /\ enable_manual_input
    /\ mainPc = "lm_write"
    /\ mloc.anchor # None
    /\ hist.markers # <<>>
    /\ connection_start_time = LastMarker
    /\ mloc.anchor # connection_start_time

\* C21: in both modes an iteration of the polling loop that finds no bytes
\* waiting takes the idle delay (time.sleep) before it polls again, and after
\* the delay it tests self.running before the next poll.
C21_IdleIterationSleeps ==
    /\ [][(ingPc = "poll" /\ ingPc' \notin {"poll", "read", "done"}) => ingPc' = "sleep"]_vars
    /\ [][(ingPc = "sleep" /\ ingPc' # "sleep") => ingPc' \in {"check", "done"}]_vars

\* the lines of the model that hold a telemetry record and no marker, and the
\* line that holds a marker and no telemetry record
TelemetryOnlyLines == {Strip(DeviceLine(1)), Strip(DeviceLine(2))}
MarkerOnlyLines == {Strip(DeviceLine(3))}

\* the ingestion loop takes a step of process_line, or of the writerow and
\* flush that end it, on the line it holds; an interrupt is not such a step
LineStep ==
    /\ ingPc \in {"conn_match", "tele_match", "writerow", "flush"}
    /\ ingPc' # ingPc
    /\ hist'.ingExit # "interrupt"

\* C22: no step of process_line on a line that holds only a telemetry record
\* changes the anchor (or counts a marker); no step on a line that holds only a
\* connection-start marker changes the sensor log, builds a row or reaches
\* writerow; and in neither case is the manual log, its handle or buffer, or
\* self.running changed.
C22_ProcessLineFrame ==
    /\ [][(LineStep /\ iloc.line \in TelemetryOnlyLines)
            => /\ connection_start_time' = connection_start_time
               /\ hist'.markers = hist.markers]_vars
    /\ [][(LineStep /\ iloc.line \in MarkerOnlyLines)
            => /\ SensorLog' = SensorLog
               /\ UNCHANGED <<fsSensor, csv_file, csv_buf>>
               /\ hist'.parsed = hist.parsed
               /\ ingPc' \in {"tele_match", "check"}]_vars
    /\ [][(LineStep /\ iloc.line \in (TelemetryOnlyLines \cup MarkerOnlyLines))
            => /\ UNCHANGED <<fsManual, manual_csv_file, manual_buf>>
               /\ running' = running]_vars

\* in an annotation session the marker-only line has replaced the anchor and
\* the telemetry-only line "TIMESTAMP_MS:1600|HR:75|SpO2:97" has been logged;
\* the anchor is still the marker's and the manual log holds its header only
C22_Witness ==
    /\ enable_manual_input
    /\ ingPc = "check"
    /\ hist.linesRead = 2
    /\ Len(hist.markers) = 1
    /\ hist.parsed = <<TelemetryOf(Strip(DeviceLine(2)))>>
    /\ Len(SensorLog) = 2
    /\ SubSeq(SensorLog[2].nums, 2, 4) = TelemetryOf(Strip(DeviceLine(2)))
    /\ clock > LastMarker
    /\ connection_start_time = LastMarker
    /\ ManualLog = <<ManualHeader>>
    /\ running

====
